---- MODULE Spec2Model ----
(***************************************************************************)
(* Per-guild playback scheduler of src/Bot.py (a discord.py music bot).    *)
(*                                                                         *)
(* The bot runs on one asyncio event loop: the code between two awaits of  *)
(* a coroutine is one atomic step.  Every action below is such a segment   *)
(* of a handler, from the point where the coroutine is resumed to the next *)
(* point where it is suspended (a network call, asyncio.to_thread,         *)
(* asyncio.sleep, a contended asyncio.Lock) or returns.  The audio player  *)
(* thread of the voice client reports the end of a stream by scheduling a  *)
(* play_next coroutine on the loop (_after).                               *)
(*                                                                         *)
(* Scope of Spec: one guild receives commands (a second one exists but is  *)
(* silent); a run holds at most MaxCmds budgeted commands (pause and       *)
(* resume are free) and at most one environment fault: a process restart,  *)
(* the removal of an audio file, or a failing ffmpeg start.  The loop      *)
(* clock does not advance under Spec.  voice_client.disconnect() is taken  *)
(* as one step.                                                            *)
(*                                                                         *)
(* Further specifications widen one aspect each: SpecClock and             *)
(* SpecTimedDisplay let the loop clock run, SpecTorn lets the process die  *)
(* inside a file write, SpecWriteFail lets a snapshot write raise,         *)
(* SpecDisplay adds /nowplaying and its updater on both guilds, SpecGuilds *)
(* sends commands to both guilds.                                          *)
(***************************************************************************)
EXTENDS Integers, Sequences, FiniteSets, TLC

\* ─── bounds of the model ────────────────────────────────────────────────
MaxCmds == 2      \* slash commands issued in one run
MaxTime == 2      \* ticks of the loop clock in one run of SpecClock

Guilds == {1, 2}
ActiveGuilds == {1}       \* guilds that receive commands under Spec
Tracks == {"a", "b"}      \* file names in AUDIO_DIR
None == "None"            \* Python's None where a file name is expected
NoTime == -1              \* Python's None where a loop time is expected

VARIABLES
    \* program state (module-level dicts of Bot.py, keyed by guild id)
    queues, is_playing, current_audio, current_start, current_duration,
    playback_locks,
    \* environment the program acts on
    datafile,      \* data/queue_<gid>.json
    audio_files,   \* files present in AUDIO_DIR
    voice,         \* guild.voice_client: connection and audio player
    tasks,         \* coroutines on the event loop, by task id
    now,           \* asyncio loop time
    \* bookkeeping of the run (not read by the program); faulted: the
    \* environment has injected its one fault (crash, file removal, ffmpeg failure)
    cmds, faulted, appended, started, flags, recovered, pn_entries,
    paused_elapsed, \* elapsed time shown for the guild when it was last paused
    \* progress display
    nowplaying_messages, \* guilds with a nowplaying message, in insertion order
    reporter,            \* position and locals of the nowplaying_updater coroutine
    rendered,            \* what the updater last put into each guild's message
    position             \* how far the voice client's player is into its stream

progVars == <<queues, is_playing, current_audio, current_start, current_duration,
              playback_locks, datafile, tasks>>
envVars == <<audio_files, voice, now>>
histVars == <<cmds, faulted, appended, started, flags, recovered, pn_entries,
              paused_elapsed>>
memVars == <<queues, is_playing, current_audio, current_start, current_duration>>
dispVars == <<nowplaying_messages, reporter, rendered, position>>
vars == <<progVars, envVars, histVars, dispVars>>

\* ─── helpers ────────────────────────────────────────────────────────────
Count(x, s) == Cardinality({i \in DOMAIN s : s[i] = x})

RECURSIVE SortedSeq(_)
SortedSeq(S) ==
    IF S = {} THEN <<>>
    ELSE LET m == CHOOSE x \in S : \A y \in S : (x = "a") \/ (y # "a")
         IN  <<m>> \o SortedSeq(S \ {m})

\* list_audio_files(): the names in AUDIO_DIR, sorted
list_audio_files == SortedSeq(audio_files)

\* os.path.exists(os.path.join(AUDIO_DIR, name))
path_exists(name) == name \in audio_files

\* length of each audio file as mutagen/ffprobe report it
TrackLength(name) == IF name = "a" THEN 1 ELSE 2

\* probe_duration(path): 0.0 for a missing file
probe_duration(name) == IF ~path_exists(name) THEN 0 ELSE TrackLength(name)

\* variant of PopFront that takes the newest entry
PopBack(q) == [item |-> q[Len(q)], rest |-> SubSeq(q, 1, Len(q) - 1)]

\* variant of PopFront that leaves the entry in the list
PopFrontKeeps(q) == [item |-> Head(q), rest |-> q]

\* list.pop(0): the element and the remaining list
PopFront(q) == [item |-> Head(q), rest |-> Tail(q)]

\* variant of InsertFront that puts the track at the end
InsertBack(q, x) == q \o <<x>>

\* list.insert(0, x)
InsertFront(q, x) == <<x>> \o q

\* ensure_guild_state defaults
IdleLock == [locked |-> FALSE, waiters |-> <<>>]
NoVoice == [conn |-> "none", player |-> "none", source |-> None]
NoSnapshot ==
    [exists |-> FALSE, torn |-> FALSE, queue |-> <<>>, voice |-> FALSE,
     current_audio |-> None]

\* variant of Snapshot that writes an empty queue
SnapshotNoQueue(q, cur, vc) ==
    [exists |-> TRUE, torn |-> FALSE, queue |-> <<>>, voice |-> (vc.conn # "none"),
     current_audio |-> cur]

\* save_queue_for_guild: what the json file holds after the write
Snapshot(q, cur, vc) ==
    [exists |-> TRUE, torn |-> FALSE, queue |-> q, voice |-> (vc.conn # "none"),
     current_audio |-> cur]

\* save_json cut short: open(path, "w") has emptied the file and json.dump
\* has not written all of the text
TornSnapshot ==
    [exists |-> TRUE, torn |-> TRUE, queue |-> <<>>, voice |-> FALSE,
     current_audio |-> None]

\* load_queue_for_guild: (q, voice_info, curr) read back from the file;
\* load_json returns the default {} for a missing file and for text that
\* json.load cannot parse
LoadQueue(file) ==
    IF file.exists /\ ~file.torn
    THEN [q |-> file.queue, voice_info |-> file.voice, curr |-> file.current_audio]
    ELSE [q |-> <<>>, voice_info |-> FALSE, curr |-> None]

\* variant of LockCanAcquire that never makes the caller wait
LockCanAcquireAlways(lk) == TRUE

\* variant of LockTake that leaves the lock free
LockTakeNot(lk) == lk

\* asyncio.Lock: acquire() takes a free lock at once only when nobody waits
LockCanAcquire(lk) == ~lk.locked /\ lk.waiters = <<>>
LockTake(lk) == [lk EXCEPT !.locked = TRUE]
LockWait(lk, tid) == [lk EXCEPT !.waiters = Append(@, tid)]
\* release(): unlock and wake the first waiter
LockRelease(lk) == [lk EXCEPT !.locked = FALSE]
\* a woken waiter leaves the wait list and locks
LockWake(lk) == [locked |-> TRUE, waiters |-> Tail(lk.waiters)]

\* VoiceClient.is_connected / is_playing / is_paused
vc_is_connected(vc) == vc.conn = "connected"
vc_is_playing(vc) == vc.player = "playing"
vc_is_paused(vc) == vc.player = "paused"
\* VoiceClient.play raises ClientException when not connected or already playing
vc_play_raises(vc) == ~vc_is_connected(vc) \/ vc_is_playing(vc)

\* task ids: the smallest id not in use
NewTid == CHOOSE i \in 1..(Cardinality(DOMAIN tasks) + 1) :
              /\ i \notin DOMAIN tasks
              /\ \A j \in 1..(i - 1) : j \in DOMAIN tasks

Task(kind, g, pc) ==
    [kind |-> kind, g |-> g, pc |-> pc, nom |-> None, files |-> <<>>,
     todo |-> {}, stack |-> <<>>]

Spawn(ts, rec) == ts @@ (NewTid :> rec)
Put(ts, tid, rec) == [i \in (DOMAIN ts) \cup {tid} |-> IF i = tid THEN rec ELSE ts[i]]
Finish(ts, tid) == [i \in (DOMAIN ts) \ {tid} |-> ts[i]]

\* variant of AfterTask that schedules play_next for the other guild
AfterTaskOther(g) == Task("after", CHOOSE h \in Guilds : h # g, "pn_start")

\* _after(err): run_coroutine_threadsafe(play_next(guild_id), bot.loop)
AfterTask(g) == Task("after", g, "pn_start")

\* bot.loop.create_task(play_next(gid)) of the recovery
CreatedTask(g) == Task("created", g, "pn_start")

NotRecovered == [how |-> "no", q |-> <<>>, curr |-> None]

\* nowplaying_updater suspended in asyncio.sleep(2)
ReporterAsleep ==
    [pc |-> "sleep", todo |-> <<>>, elapsed |-> 0, remaining |-> 0, queue_dur |-> 0]
\* a message the updater has not edited yet
NoRender == [kind |-> "none", elapsed |-> 0, duration |-> 0, remaining |-> 0]

Init ==
    /\ queues = [g \in Guilds |-> <<>>]
    /\ is_playing = [g \in Guilds |-> FALSE]
    /\ current_audio = [g \in Guilds |-> None]
    /\ current_start = [g \in Guilds |-> NoTime]
    /\ current_duration = [g \in Guilds |-> 0]
    /\ playback_locks = [g \in Guilds |-> IdleLock]
    /\ datafile = [g \in Guilds |-> NoSnapshot]
    /\ audio_files = Tracks
    /\ voice = [g \in Guilds |-> NoVoice]
    /\ tasks = <<>>
    /\ now = 0
    /\ cmds = 0
    /\ faulted = FALSE
    /\ appended = [g \in Guilds |-> <<>>]
    /\ started = [g \in Guilds |-> <<>>]
    /\ flags = [g \in Guilds |-> {}]
    /\ recovered = [g \in Guilds |-> NotRecovered]
    /\ pn_entries = [g \in Guilds |-> 0]
    /\ paused_elapsed = [g \in Guilds |-> 0]
    /\ nowplaying_messages = <<>>
    /\ reporter = ReporterAsleep
    /\ rendered = [g \in Guilds |-> NoRender]
    /\ position = [g \in Guilds |-> 0]

\* ─── bookkeeping of the run ─────────────────────────────────────────────
Quiescent == DOMAIN tasks = {}
RestorePending == \E t \in DOMAIN tasks : tasks[t].pc = "rs_load"

\* marks left by a command of kind `kind` arriving for guild g
IssueFlags(g, kind) ==
    flags[g] \cup {kind}
        \cup (IF ~Quiescent THEN {"overlap"} ELSE {})
        \cup (IF "stop" \in flags[g] THEN {"poststop"} ELSE {})
        \cup (IF RestorePending THEN {"preload"} ELSE {})

\* VoiceClient.stop(): the player, if any, ends and calls _after
vc_stop(vc) == [vc EXCEPT !.player = "none", !.source = None]
AfterStop(ts, g) == IF voice[g].player # "none" THEN Spawn(ts, AfterTask(g)) ELSE ts

\* ─── play_next ──────────────────────────────────────────────────────────
\* Body of play_next from the moment the lock is held (lk) to the next
\* suspension or the return; tk is the running task's record, fl the marks.
PlayNextBody(self, g, lk, tk, fl) ==
    /\ pn_entries' = [pn_entries EXCEPT ![g] = @ + 1]
    /\ IF queues[g] = <<>>
       THEN \* lines 165-172
            /\ is_playing' = [is_playing EXCEPT ![g] = FALSE]
            /\ current_audio' = [current_audio EXCEPT ![g] = None]
            /\ current_start' = [current_start EXCEPT ![g] = NoTime]
            /\ current_duration' = [current_duration EXCEPT ![g] = 0]
            /\ datafile' = [datafile EXCEPT ![g] = Snapshot(queues[g], None, voice[g])]
            /\ playback_locks' = [playback_locks EXCEPT ![g] = LockRelease(lk)]
            /\ tasks' = Finish(tasks, self)
            /\ flags' = [flags EXCEPT ![g] = fl]
            /\ UNCHANGED queues
       ELSE LET filename == PopFront(queues[g]).item
                rest == PopFront(queues[g]).rest
            IN  IF ~path_exists(filename)
                THEN \* lines 175-182: await play_next(guild_id) while the lock is
                     \* held by this very task: the inner acquire() has to wait
                     /\ queues' = [queues EXCEPT ![g] = rest]
                     /\ current_audio' = [current_audio EXCEPT ![g] = filename]
                     /\ datafile' = [datafile EXCEPT ![g] = Snapshot(rest, filename, voice[g])]
                     /\ playback_locks' = [playback_locks EXCEPT ![g] = LockWait(lk, self)]
                     /\ tasks' = Put(tasks, self,
                                     [tk EXCEPT !.pc = "pn_wait", !.nom = filename,
                                                !.stack = Append(@, "missing")])
                     /\ flags' = [flags EXCEPT ![g] = fl]
                     /\ UNCHANGED <<is_playing, current_start, current_duration>>
                ELSE IF ~vc_is_connected(voice[g])
                THEN \* lines 189-197
                     /\ queues' = [queues EXCEPT ![g] = InsertFront(rest, filename)]
                     /\ current_audio' = [current_audio EXCEPT ![g] = None]
                     /\ is_playing' = [is_playing EXCEPT ![g] = FALSE]
                     /\ current_start' = [current_start EXCEPT ![g] = NoTime]
                     /\ current_duration' = [current_duration EXCEPT ![g] = 0]
                     /\ datafile' = [datafile EXCEPT ![g] =
                                       Snapshot(InsertFront(rest, filename), None, voice[g])]
                     /\ playback_locks' = [playback_locks EXCEPT ![g] = LockRelease(lk)]
                     /\ tasks' = Finish(tasks, self)
                     /\ flags' = [flags EXCEPT ![g] = fl \cup {"novoice"}]
                ELSE \* lines 175-177, 199 and 140: suspended in probe_duration
                     /\ queues' = [queues EXCEPT ![g] = rest]
                     /\ current_audio' = [current_audio EXCEPT ![g] = filename]
                     /\ datafile' = [datafile EXCEPT ![g] = Snapshot(rest, filename, voice[g])]
                     /\ playback_locks' = [playback_locks EXCEPT ![g] = lk]
                     /\ tasks' = Put(tasks, self,
                                     [tk EXCEPT !.pc = "spp_probe", !.nom = filename])
                     /\ flags' = [flags EXCEPT ![g] = fl]
                     /\ UNCHANGED <<is_playing, current_start, current_duration>>

\* await play_next(guild_id) from call site `site`: runs on in the caller's
\* task tk; suspends only if the lock cannot be taken at once.
CallPlayNext(self, tk, site, fl) ==
    LET g == tk.g
        lk == playback_locks[g]
        tk1 == [tk EXCEPT !.stack = Append(@, site)]
    IN  IF LockCanAcquire(lk)
        THEN PlayNextBody(self, g, LockTake(lk), tk1, fl)
        ELSE /\ playback_locks' = [playback_locks EXCEPT ![g] = LockWait(lk, self)]
             /\ tasks' = Put(tasks, self, [tk1 EXCEPT !.pc = "pn_wait"])
             /\ flags' = [flags EXCEPT ![g] = fl]
             /\ UNCHANGED <<memVars, datafile, pn_entries>>

\* a play_next waiting for the lock is woken first in line
PlayNextAcquire(self) ==
    LET g == tasks[self].g
        lk == playback_locks[g]
    IN  /\ tasks[self].pc = "pn_wait"
        /\ ~lk.locked
        /\ lk.waiters # <<>>
        /\ Head(lk.waiters) = self
        /\ PlayNextBody(self, g, LockWake(lk), tasks[self], flags[g])
        /\ UNCHANGED <<envVars, cmds, faulted, appended, started, recovered>>
        /\ UNCHANGED <<paused_elapsed, dispVars>>

\* the play_next coroutine scheduled by _after or by the recovery starts
PlayNextStart(self) ==
    /\ tasks[self].pc = "pn_start"
    /\ CallPlayNext(self, tasks[self], "task", flags[tasks[self].g])
    /\ UNCHANGED <<envVars, cmds, faulted, appended, started, recovered>>
    /\ UNCHANGED <<paused_elapsed, dispVars>>

\* variant of StartPlayingPath that leaves the playing flag False
StartPlayingPathFlagUnset(self) ==
    LET g == tasks[self].g
        path == tasks[self].nom
    IN  /\ tasks[self].pc = "spp_probe"
        /\ \E ffmpeg_fails \in BOOLEAN :
             /\ ffmpeg_fails => ~faulted
             /\ faulted' = (faulted \/ ffmpeg_fails)
             /\ IF vc_play_raises(voice[g]) \/ ffmpeg_fails
                THEN \* except branch: reset, then asyncio.sleep(0.5)
                     /\ is_playing' = [is_playing EXCEPT ![g] = FALSE]
                     /\ current_audio' = [current_audio EXCEPT ![g] = None]
                     /\ current_start' = [current_start EXCEPT ![g] = NoTime]
                     /\ current_duration' = [current_duration EXCEPT ![g] = 0]
                     /\ tasks' = [tasks EXCEPT ![self].pc = "spp_sleep"]
                     /\ UNCHANGED <<voice, started, playback_locks, flags, position>>
                ELSE \* the stream starts; play_next leaves the lock and returns
                     /\ current_duration' = [current_duration EXCEPT ![g] = probe_duration(path)]
                     /\ current_start' = [current_start EXCEPT ![g] = now]
                     /\ is_playing' = [is_playing EXCEPT ![g] = FALSE]
                     /\ voice' = [voice EXCEPT ![g].player = "playing", ![g].source = path]
                     /\ started' = [started EXCEPT ![g] = Append(@, path)]
                     /\ playback_locks' = [playback_locks EXCEPT ![g] = LockRelease(@)]
                     /\ tasks' = Finish(tasks, self)
                     /\ position' = [position EXCEPT ![g] = 0]
                     /\ UNCHANGED <<current_audio, flags>>
        /\ UNCHANGED <<queues, datafile, audio_files, now, cmds, appended, recovered,
                       pn_entries>>
        /\ UNCHANGED <<paused_elapsed, nowplaying_messages, reporter, rendered>>

\* _start_playing_path after probe_duration returned (lines 141-157)
StartPlayingPath(self) ==
    LET g == tasks[self].g
        path == tasks[self].nom
    IN  /\ tasks[self].pc = "spp_probe"
        /\ \E ffmpeg_fails \in BOOLEAN :
             /\ ffmpeg_fails => ~faulted
             /\ faulted' = (faulted \/ ffmpeg_fails)
             /\ IF vc_play_raises(voice[g]) \/ ffmpeg_fails
                THEN \* except branch: reset, then asyncio.sleep(0.5)
                     /\ is_playing' = [is_playing EXCEPT ![g] = FALSE]
                     /\ current_audio' = [current_audio EXCEPT ![g] = None]
                     /\ current_start' = [current_start EXCEPT ![g] = NoTime]
                     /\ current_duration' = [current_duration EXCEPT ![g] = 0]
                     /\ tasks' = [tasks EXCEPT ![self].pc = "spp_sleep"]
                     /\ UNCHANGED <<voice, started, playback_locks, flags, position>>
                ELSE \* the stream starts; play_next leaves the lock and returns
                     /\ current_duration' = [current_duration EXCEPT ![g] = probe_duration(path)]
                     /\ current_start' = [current_start EXCEPT ![g] = now]
                     /\ is_playing' = [is_playing EXCEPT ![g] = TRUE]
                     /\ voice' = [voice EXCEPT ![g].player = "playing", ![g].source = path]
                     /\ started' = [started EXCEPT ![g] = Append(@, path)]
                     /\ playback_locks' = [playback_locks EXCEPT ![g] = LockRelease(@)]
                     /\ tasks' = Finish(tasks, self)
                     /\ position' = [position EXCEPT ![g] = 0]
                     /\ UNCHANGED <<current_audio, flags>>
        /\ UNCHANGED <<queues, datafile, audio_files, now, cmds, appended, recovered,
                       pn_entries>>
        /\ UNCHANGED <<paused_elapsed, nowplaying_messages, reporter, rendered>>

\* _start_playing_path after asyncio.sleep(0.5): await play_next (line 159)
StartPlayingRetry(self) ==
    /\ tasks[self].pc = "spp_sleep"
    /\ CallPlayNext(self, tasks[self], "except", flags[tasks[self].g])
    /\ UNCHANGED <<envVars, cmds, faulted, appended, started, recovered>>
    /\ UNCHANGED <<paused_elapsed, dispVars>>

\* the audio player reaches the end of the stream and calls _after
PlayerFinish(g) ==
    /\ vc_is_playing(voice[g])
    /\ voice' = [voice EXCEPT ![g] = vc_stop(@)]
    /\ tasks' = Spawn(tasks, AfterTask(g))
    /\ flags' = [flags EXCEPT ![g] = @ \cup {"finished"}]
    /\ UNCHANGED <<memVars, playback_locks, datafile, audio_files, now, cmds, faulted,
                   appended, started, recovered, pn_entries>>
    /\ UNCHANGED <<paused_elapsed, dispVars>>

\* ─── /play ──────────────────────────────────────────────────────────────
\* variant of PlayAppend that queues the track in front
PlayAppendFront(self, tk, vc) ==
    LET g == tk.g
    IN  /\ queues' = [queues EXCEPT ![g] = <<tk.nom>> \o @]
        /\ datafile' = [datafile EXCEPT ![g] =
                          Snapshot(<<tk.nom>> \o queues[g], current_audio[g], vc)]
        /\ appended' = [appended EXCEPT ![g] = Append(@, tk.nom)]
        /\ tasks' = Put(tasks, self, [tk EXCEPT !.pc = "play_sent"])

\* lines 426-428: append, persist, suspended in followup.send
PlayAppend(self, tk, vc) ==
    LET g == tk.g
    IN  /\ queues' = [queues EXCEPT ![g] = Append(@, tk.nom)]
        /\ datafile' = [datafile EXCEPT ![g] =
                          Snapshot(Append(queues[g], tk.nom), current_audio[g], vc)]
        /\ appended' = [appended EXCEPT ![g] = Append(@, tk.nom)]
        /\ tasks' = Put(tasks, self, [tk EXCEPT !.pc = "play_sent"])

\* variant of play_accepts without the check
play_accepts_any(nom) == TRUE

\* line 411: the handler goes on only for a file that exists
play_accepts(nom) == path_exists(nom)

\* lines 404-428: the user sits in a voice channel.  For a file that does
\* not exist the handler replies and returns (lines 411-413).  Otherwise it
\* runs to followup.send, or to channel.connect() when the bot is not
\* connected.  (connect() raises at once while another connection attempt
\* holds the guild's voice client: the handler then changes nothing.)
PlayIssue(g, nom) ==
    LET tk == [Task("play", g, "play_connecting") EXCEPT !.nom = nom]
    IN  /\ cmds < MaxCmds
        /\ cmds' = cmds + 1
        /\ IF ~play_accepts(nom)
           THEN /\ flags' = [flags EXCEPT ![g] = IssueFlags(g, "rejected")]
                /\ UNCHANGED <<voice, tasks, queues, datafile, appended>>
           ELSE /\ voice[g].conn # "connecting"
                /\ flags' = [flags EXCEPT ![g] = IssueFlags(g, "play")]
                /\ IF vc_is_connected(voice[g])
                   THEN /\ PlayAppend(NewTid, tk, voice[g])
                        /\ UNCHANGED voice
                   ELSE /\ voice' = [voice EXCEPT ![g].conn = "connecting"]
                        /\ tasks' = Spawn(tasks, tk)
                        /\ UNCHANGED <<queues, datafile, appended>>
        /\ UNCHANGED <<is_playing, current_audio, current_start, current_duration,
                       playback_locks, audio_files, now, faulted, started, recovered,
                       pn_entries>>
        /\ UNCHANGED <<paused_elapsed, dispVars>>

\* channel.connect() returns or raises (lines 421-428)
PlayConnected(self) ==
    LET g == tasks[self].g
    IN  /\ tasks[self].kind = "play"
        /\ tasks[self].pc = "play_connecting"
        /\ \E ok \in BOOLEAN :
             IF ok
             THEN /\ voice' = [voice EXCEPT ![g].conn = "connected"]
                  /\ PlayAppend(self, tasks[self], [voice[g] EXCEPT !.conn = "connected"])
             ELSE /\ voice' = [voice EXCEPT ![g] = NoVoice]
                  /\ tasks' = Finish(tasks, self)
                  /\ UNCHANGED <<queues, datafile, appended>>
        /\ UNCHANGED <<is_playing, current_audio, current_start, current_duration,
                       playback_locks, audio_files, now, cmds, faulted, started,
                       flags, recovered, pn_entries>>
        /\ UNCHANGED <<paused_elapsed, dispVars>>

\* lines 429-430 when resumed from followup.send
PlayTrigger(self) ==
    LET g == tasks[self].g
    IN  /\ tasks[self].kind = "play"
        /\ tasks[self].pc = "play_sent"
        /\ IF ~is_playing[g]
           THEN CallPlayNext(self, tasks[self], "play", flags[g])
           ELSE /\ tasks' = Finish(tasks, self)
                /\ UNCHANGED <<memVars, playback_locks, datafile, flags, pn_entries>>
        /\ UNCHANGED <<envVars, cmds, faulted, appended, started, recovered>>
        /\ UNCHANGED <<paused_elapsed, dispVars>>

\* ─── /playall (whole audio directory) ───────────────────────────────────
\* lines 463-469: append the files that exist, persist, suspended in followup.send
PlayAllAppend(self, tk, vc) ==
    LET g == tk.g
        added == SelectSeq(tk.files, path_exists)
    IN  /\ queues' = [queues EXCEPT ![g] = @ \o added]
        /\ datafile' = [datafile EXCEPT ![g] =
                          Snapshot(queues[g] \o added, current_audio[g], vc)]
        /\ appended' = [appended EXCEPT ![g] = @ \o added]
        /\ tasks' = Put(tasks, self, [tk EXCEPT !.pc = "play_sent"])

\* lines 434-469
PlayAllIssue(g) ==
    LET tk == [Task("playall", g, "play_connecting") EXCEPT !.files = list_audio_files]
    IN  /\ cmds < MaxCmds
        /\ list_audio_files # <<>>
        /\ voice[g].conn # "connecting"
        /\ cmds' = cmds + 1
        /\ flags' = [flags EXCEPT ![g] = IssueFlags(g, "play")]
        /\ IF vc_is_connected(voice[g])
           THEN /\ PlayAllAppend(NewTid, tk, voice[g])
                /\ UNCHANGED voice
           ELSE /\ voice' = [voice EXCEPT ![g].conn = "connecting"]
                /\ tasks' = Spawn(tasks, tk)
                /\ UNCHANGED <<queues, datafile, appended>>
        /\ UNCHANGED <<is_playing, current_audio, current_start, current_duration,
                       playback_locks, audio_files, now, faulted, started, recovered,
                       pn_entries>>
        /\ UNCHANGED <<paused_elapsed, dispVars>>

\* lines 458-469
PlayAllConnected(self) ==
    LET g == tasks[self].g
    IN  /\ tasks[self].kind = "playall"
        /\ tasks[self].pc = "play_connecting"
        /\ \E ok \in BOOLEAN :
             IF ok
             THEN /\ voice' = [voice EXCEPT ![g].conn = "connected"]
                  /\ PlayAllAppend(self, tasks[self], [voice[g] EXCEPT !.conn = "connected"])
             ELSE /\ voice' = [voice EXCEPT ![g] = NoVoice]
                  /\ tasks' = Finish(tasks, self)
                  /\ UNCHANGED <<queues, datafile, appended>>
        /\ UNCHANGED <<is_playing, current_audio, current_start, current_duration,
                       playback_locks, audio_files, now, cmds, faulted, started,
                       flags, recovered, pn_entries>>
        /\ UNCHANGED <<paused_elapsed, dispVars>>

\* lines 470-471
PlayAllTrigger(self) ==
    LET g == tasks[self].g
    IN  /\ tasks[self].kind = "playall"
        /\ tasks[self].pc = "play_sent"
        /\ IF ~is_playing[g]
           THEN CallPlayNext(self, tasks[self], "playall", flags[g])
           ELSE /\ tasks' = Finish(tasks, self)
                /\ UNCHANGED <<memVars, playback_locks, datafile, flags, pn_entries>>
        /\ UNCHANGED <<envVars, cmds, faulted, appended, started, recovered>>
        /\ UNCHANGED <<paused_elapsed, dispVars>>

\* ─── /stop ──────────────────────────────────────────────────────────────
\* list.clear()
clear(q) == <<>>

\* lines 518-531
StopIssue(g) ==
    /\ cmds < MaxCmds
    /\ cmds' = cmds + 1
    /\ queues' = [queues EXCEPT ![g] = clear(@)]
    /\ voice' = [voice EXCEPT ![g] = vc_stop(@)]
    /\ tasks' = AfterStop(tasks, g)
    /\ is_playing' = [is_playing EXCEPT ![g] = FALSE]
    /\ datafile' = [datafile EXCEPT ![g] =
                      Snapshot(clear(queues[g]), current_audio[g], voice[g])]
    /\ flags' = [flags EXCEPT ![g] = IssueFlags(g, "stop") \cup
                   (IF /\ ~Quiescent
                       /\ \A t \in DOMAIN tasks : tasks[t].kind = "after" /\ tasks[t].g = g
                    THEN {"stoprace"} ELSE {})]
    /\ UNCHANGED <<current_audio, current_start, current_duration, playback_locks,
                   audio_files, now, faulted, appended, started, recovered, pn_entries>>
    /\ UNCHANGED <<paused_elapsed, dispVars>>

\* ─── /skip ──────────────────────────────────────────────────────────────
\* lines 500-515 (with no stream at all and an empty queue the handler only
\* replies); a paused stream is not "playing": the handler then calls
\* play_next when the queue has entries and only replies when it has none
SkipIssue(g) ==
    /\ cmds < MaxCmds
    /\ voice[g].player # "none" \/ queues[g] # <<>>
    /\ cmds' = cmds + 1
    /\ IF vc_is_playing(voice[g])
       THEN /\ voice' = [voice EXCEPT ![g] = vc_stop(@)]
            /\ tasks' = AfterStop(tasks, g)
            /\ flags' = [flags EXCEPT ![g] = IssueFlags(g, "skip")]
            /\ UNCHANGED <<memVars, playback_locks, datafile, pn_entries>>
       ELSE IF queues[g] # <<>>
       THEN /\ CallPlayNext(NewTid, Task("skip", g, "skip"), "skip", IssueFlags(g, "skip"))
            /\ UNCHANGED voice
       ELSE /\ flags' = [flags EXCEPT ![g] = IssueFlags(g, "skip")]
            /\ UNCHANGED <<memVars, playback_locks, datafile, pn_entries, voice, tasks>>
    /\ UNCHANGED <<audio_files, now, faulted, appended, started, recovered>>
    /\ UNCHANGED <<paused_elapsed, dispVars>>

\* ─── /pause, /resume ────────────────────────────────────────────────────
\* lines 307-308: elapsed time of the current track as nowplaying shows it
Elapsed(g) ==
    LET start == IF current_start[g] = NoTime THEN 0 ELSE current_start[g]
    IN  IF now - start < 0 THEN 0 ELSE now - start

\* lines 474-484
PauseIssue(g) ==
    /\ vc_is_playing(voice[g])
    /\ voice' = [voice EXCEPT ![g].player = "paused"]
    /\ paused_elapsed' = [paused_elapsed EXCEPT ![g] = Elapsed(g)]
    /\ UNCHANGED <<progVars, audio_files, now, cmds, faulted, appended, started, flags, recovered,
                   pn_entries>>
    /\ UNCHANGED dispVars

\* lines 487-497
ResumeIssue(g) ==
    /\ vc_is_paused(voice[g])
    /\ voice' = [voice EXCEPT ![g].player = "playing"]
    /\ UNCHANGED <<progVars, audio_files, now, cmds, faulted, appended, started, flags, recovered,
                   pn_entries>>
    /\ UNCHANGED <<paused_elapsed, dispVars>>

\* ─── /join ──────────────────────────────────────────────────────────────
\* lines 333-343: suspended in channel.connect() (which raises at once when
\* the guild already has a voice client)
JoinIssue(g) ==
    /\ cmds < MaxCmds
    /\ voice[g].conn = "none"
    /\ cmds' = cmds + 1
    /\ voice' = [voice EXCEPT ![g].conn = "connecting"]
    /\ tasks' = Spawn(tasks, Task("join", g, "join_connecting"))
    /\ flags' = [flags EXCEPT ![g] = IssueFlags(g, "join")]
    /\ UNCHANGED <<memVars, playback_locks, datafile, audio_files, now, faulted,
                   appended, started, recovered, pn_entries>>
    /\ UNCHANGED <<paused_elapsed, dispVars>>

\* lines 343-345 or 349-350
JoinConnected(self) ==
    LET g == tasks[self].g
    IN  /\ tasks[self].pc = "join_connecting"
        /\ \E ok \in BOOLEAN :
             IF ok
             THEN /\ voice' = [voice EXCEPT ![g].conn = "connected"]
                  /\ datafile' = [datafile EXCEPT ![g] =
                                    Snapshot(queues[g], current_audio[g],
                                             [voice[g] EXCEPT !.conn = "connected"])]
                  /\ tasks' = [tasks EXCEPT ![self].pc = "join_reply"]
             ELSE /\ voice' = [voice EXCEPT ![g] = NoVoice]
                  /\ tasks' = Finish(tasks, self)
                  /\ UNCHANGED datafile
        /\ UNCHANGED <<memVars, playback_locks, audio_files, now, histVars, dispVars>>

\* lines 346-348
JoinTrigger(self) ==
    LET g == tasks[self].g
    IN  /\ tasks[self].pc = "join_reply"
        /\ IF queues[g] # <<>> /\ ~is_playing[g]
           THEN CallPlayNext(self, tasks[self], "join", flags[g])
           ELSE /\ tasks' = Finish(tasks, self)
                /\ UNCHANGED <<memVars, playback_locks, datafile, flags, pn_entries>>
        /\ UNCHANGED <<envVars, cmds, faulted, appended, started, recovered>>
        /\ UNCHANGED <<paused_elapsed, dispVars>>

\* ─── /leave ─────────────────────────────────────────────────────────────
\* lines 355-367: voice_client.disconnect() stops the player and drops the
\* guild's voice client; the handler is suspended in it
LeaveIssue(g) ==
    /\ cmds < MaxCmds
    /\ vc_is_connected(voice[g])
    /\ cmds' = cmds + 1
    /\ voice' = [voice EXCEPT ![g] = NoVoice]
    /\ tasks' = Spawn(AfterStop(tasks, g), Task("leave", g, "leave_save"))
    /\ flags' = [flags EXCEPT ![g] = IssueFlags(g, "leave")]
    /\ UNCHANGED <<memVars, playback_locks, datafile, audio_files, now, faulted,
                   appended, started, recovered, pn_entries>>
    /\ UNCHANGED <<paused_elapsed, dispVars>>

\* line 368
LeaveSave(self) ==
    LET g == tasks[self].g
    IN  /\ tasks[self].pc = "leave_save"
        /\ datafile' = [datafile EXCEPT ![g] = Snapshot(queues[g], current_audio[g], voice[g])]
        /\ tasks' = Finish(tasks, self)
        /\ UNCHANGED <<memVars, playback_locks, envVars, histVars, dispVars>>

\* the file is queued somewhere or carried by a running handler
InUse(nom) ==
    \/ \E g \in Guilds : \E i \in DOMAIN queues[g] : queues[g][i] = nom
    \/ \E t \in DOMAIN tasks :
          \/ tasks[t].nom = nom /\ tasks[t].pc \in {"play_connecting", "spp_probe"}
          \/ \E i \in DOMAIN tasks[t].files : tasks[t].files[i] = nom

\* ─── environment faults ─────────────────────────────────────────────────
\* a file of AUDIO_DIR is removed
DeleteFile(nom) ==
    /\ ~faulted
    /\ nom \in audio_files
    /\ InUse(nom)
    /\ faulted' = TRUE
    /\ audio_files' = audio_files \ {nom}
    /\ UNCHANGED <<progVars, voice, now, cmds, appended, started, flags, recovered,
                   pn_entries>>
    /\ UNCHANGED <<paused_elapsed, dispVars>>

\* the process dies and is started again: memory, tasks and voice are gone,
\* the files stay; on_ready schedules restore_all_queues_and_maybe_join
Crash ==
    /\ ~faulted
    /\ \E g \in Guilds : datafile[g].exists
    /\ faulted' = TRUE
    /\ queues' = [g \in Guilds |-> <<>>]
    /\ is_playing' = [g \in Guilds |-> FALSE]
    /\ current_audio' = [g \in Guilds |-> None]
    /\ current_start' = [g \in Guilds |-> NoTime]
    /\ current_duration' = [g \in Guilds |-> 0]
    /\ playback_locks' = [g \in Guilds |-> IdleLock]
    /\ voice' = [g \in Guilds |-> NoVoice]
    /\ tasks' = (1 :> [Task("restore", 1, "rs_load") EXCEPT
                          !.todo = {g \in Guilds : datafile[g].exists}])
    /\ appended' = [g \in Guilds |-> <<>>]
    /\ started' = [g \in Guilds |-> <<>>]
    /\ flags' = [g \in Guilds |-> {"crash"}]
    /\ recovered' = [g \in Guilds |-> NotRecovered]
    /\ pn_entries' = [g \in Guilds |-> 0]
    /\ paused_elapsed' = [g \in Guilds |-> 0]
    /\ nowplaying_messages' = <<>>
    /\ reporter' = ReporterAsleep
    /\ position' = [g \in Guilds |-> 0]
    /\ UNCHANGED <<datafile, audio_files, now, cmds, rendered>>

\* snapshots that a coroutine of the guild writes first when it runs on: the
\* leave handler (line 368), or a play_next that can take the lock (lines
\* 172 and 176)
PendingSave(g) ==
    {Snapshot(queues[g], current_audio[g], voice[g]) :
        k \in {k \in DOMAIN tasks : tasks[k].g = g /\ tasks[k].pc = "leave_save"}}
    \cup
    {IF queues[g] = <<>>
     THEN Snapshot(<<>>, None, voice[g])
     ELSE Snapshot(PopFront(queues[g]).rest, PopFront(queues[g]).item, voice[g]) :
        k \in {k \in DOMAIN tasks :
                  /\ tasks[k].g = g
                  /\ \/ tasks[k].pc = "pn_start" /\ LockCanAcquire(playback_locks[g])
                     \/ /\ tasks[k].pc = "pn_wait"
                        /\ ~playback_locks[g].locked
                        /\ playback_locks[g].waiters # <<>>
                        /\ Head(playback_locks[g].waiters) = k}}

\* the process dies inside save_json while a coroutine writes the guild's
\* queue file, and is started again
CrashInSave(g) ==
    /\ ~faulted
    /\ datafile[g].exists
    /\ PendingSave(g) # {}
    /\ faulted' = TRUE
    /\ datafile' = [datafile EXCEPT ![g] = TornSnapshot]
    /\ queues' = [h \in Guilds |-> <<>>]
    /\ is_playing' = [h \in Guilds |-> FALSE]
    /\ current_audio' = [h \in Guilds |-> None]
    /\ current_start' = [h \in Guilds |-> NoTime]
    /\ current_duration' = [h \in Guilds |-> 0]
    /\ playback_locks' = [h \in Guilds |-> IdleLock]
    /\ voice' = [h \in Guilds |-> NoVoice]
    /\ tasks' = (1 :> [Task("restore", 1, "rs_load") EXCEPT
                          !.todo = {h \in Guilds : datafile[h].exists}])
    /\ appended' = [h \in Guilds |-> <<>>]
    /\ started' = [h \in Guilds |-> <<>>]
    /\ flags' = [h \in Guilds |-> {"crash"}]
    /\ recovered' = [h \in Guilds |-> NotRecovered]
    /\ pn_entries' = [h \in Guilds |-> 0]
    /\ paused_elapsed' = [h \in Guilds |-> 0]
    /\ nowplaying_messages' = <<>>
    /\ reporter' = ReporterAsleep
    /\ position' = [h \in Guilds |-> 0]
    /\ UNCHANGED <<audio_files, now, cmds, rendered>>

\* ─── restore_all_queues_and_maybe_join ──────────────────────────────────
\* variant of RestoredQueue that puts the saved current track back in front
RestoredQueueWithCurrent(loaded) ==
    IF loaded.curr # None THEN <<loaded.curr>> \o loaded.q ELSE loaded.q

\* line 251
RestoredQueue(loaded) == loaded.q

\* variant of RestoreShouldStart that does not look at the voice client
RestoreShouldStartAnyway(vc, q, playing) == q # <<>> /\ ~playing

\* lines 271-273
RestoreShouldStart(vc, q, playing) == vc.conn # "none" /\ q # <<>> /\ ~playing

\* the loop goes on to the next queue file, or ends
RestoreNext(tk, g) ==
    IF tk.todo \ {g} = {} THEN <<>> ELSE <<[tk EXCEPT !.pc = "rs_load", !.todo = @ \ {g}]>>

\* lines 249-266 for one queue file: load, replace the queue, and go into
\* channel.connect() when a voice channel was saved
RestoreLoad(self) ==
    /\ tasks[self].pc = "rs_load"
    /\ \E g \in tasks[self].todo :
         LET loaded == LoadQueue(datafile[g])
             q == RestoredQueue(loaded)
             tk == tasks[self]
             nxt == RestoreNext(tk, g)
             base == IF nxt = <<>> THEN Finish(tasks, self) ELSE Put(tasks, self, nxt[1])
         IN  /\ queues' = [queues EXCEPT ![g] = q]
             /\ IF ~loaded.voice_info
                THEN \* lines 277-281
                     /\ recovered' = [recovered EXCEPT ![g] =
                                        [how |-> "novoice", q |-> loaded.q, curr |-> loaded.curr]]
                     /\ tasks' = base
                     /\ UNCHANGED voice
                ELSE IF voice[g].conn = "none"
                THEN \* lines 265-266
                     /\ recovered' = [recovered EXCEPT ![g] =
                                        [how |-> "loaded", q |-> loaded.q, curr |-> loaded.curr]]
                     /\ voice' = [voice EXCEPT ![g].conn = "connecting"]
                     /\ tasks' = Put(tasks, self, [tk EXCEPT !.pc = "rs_connecting", !.g = g])
                ELSE \* lines 271-274: the guild has a voice client already
                     /\ recovered' = [recovered EXCEPT ![g] =
                                        [how |-> "other", q |-> loaded.q, curr |-> loaded.curr]]
                     /\ tasks' = IF RestoreShouldStart(voice[g], q, is_playing[g])
                                 THEN Spawn(base, CreatedTask(g)) ELSE base
                     /\ UNCHANGED voice
    /\ UNCHANGED <<is_playing, current_audio, current_start, current_duration,
                   playback_locks, datafile, audio_files, now, cmds, faulted, appended,
                   started, flags, pn_entries>>
    /\ UNCHANGED <<paused_elapsed, dispVars>>

\* lines 266-274: channel.connect() returned or raised
RestoreConnected(self) ==
    LET g == tasks[self].g
        tk == tasks[self]
        nxt == RestoreNext(tk, g)
        base == IF nxt = <<>> THEN Finish(tasks, self) ELSE Put(tasks, self, nxt[1])
    IN  /\ tasks[self].pc = "rs_connecting"
        /\ \E ok \in BOOLEAN :
             LET vc == IF ok THEN [voice[g] EXCEPT !.conn = "connected"] ELSE NoVoice
             IN  /\ voice' = [voice EXCEPT ![g] = vc]
                 /\ recovered' = [recovered EXCEPT ![g].how =
                                    IF ok THEN "connected" ELSE "failed"]
                 /\ tasks' = IF RestoreShouldStart(vc, queues[g], is_playing[g])
                             THEN Spawn(base, CreatedTask(g)) ELSE base
        /\ UNCHANGED <<memVars, playback_locks, datafile, audio_files, now, cmds, faulted,
                       appended, started, flags, pn_entries>>
        /\ UNCHANGED <<paused_elapsed, dispVars>>

\* ─── the system ─────────────────────────────────────────────────────────
Next ==
    \/ \E g \in ActiveGuilds, nom \in Tracks : PlayIssue(g, nom)
    \/ \E self \in DOMAIN tasks : PlayConnected(self)
    \/ \E self \in DOMAIN tasks : PlayTrigger(self)
    \/ \E g \in ActiveGuilds : PlayAllIssue(g)
    \/ \E self \in DOMAIN tasks : PlayAllConnected(self)
    \/ \E self \in DOMAIN tasks : PlayAllTrigger(self)
    \/ \E g \in ActiveGuilds : StopIssue(g)
    \/ \E g \in ActiveGuilds : SkipIssue(g)
    \/ \E g \in ActiveGuilds : PauseIssue(g)
    \/ \E g \in ActiveGuilds : ResumeIssue(g)
    \/ \E g \in ActiveGuilds : JoinIssue(g)
    \/ \E self \in DOMAIN tasks : JoinConnected(self)
    \/ \E self \in DOMAIN tasks : JoinTrigger(self)
    \/ \E g \in ActiveGuilds : LeaveIssue(g)
    \/ \E self \in DOMAIN tasks : LeaveSave(self)
    \/ \E self \in DOMAIN tasks : PlayNextStart(self)
    \/ \E self \in DOMAIN tasks : PlayNextAcquire(self)
    \/ \E self \in DOMAIN tasks : StartPlayingPath(self)
    \/ \E self \in DOMAIN tasks : StartPlayingRetry(self)
    \/ \E g \in ActiveGuilds : PlayerFinish(g)
    \/ \E nom \in Tracks : DeleteFile(nom)
    \/ Crash
    \/ \E self \in DOMAIN tasks : RestoreLoad(self)
    \/ \E self \in DOMAIN tasks : RestoreConnected(self)

Spec == Init /\ [][Next]_vars

\* ─── the system with a running clock ────────────────────────────────────
\* asyncio loop time advances
Tick ==
    /\ now < MaxTime
    /\ now' = now + 1
    /\ UNCHANGED <<progVars, audio_files, voice, histVars, dispVars>>

\* play, pause and resume on one guild while time passes
ClockNext ==
    \/ \E g \in ActiveGuilds, nom \in Tracks : PlayIssue(g, nom)
    \/ \E self \in DOMAIN tasks : PlayConnected(self)
    \/ \E self \in DOMAIN tasks : PlayTrigger(self)
    \/ \E g \in ActiveGuilds : PauseIssue(g)
    \/ \E g \in ActiveGuilds : ResumeIssue(g)
    \/ \E self \in DOMAIN tasks : PlayNextStart(self)
    \/ \E self \in DOMAIN tasks : PlayNextAcquire(self)
    \/ \E self \in DOMAIN tasks : StartPlayingPath(self)
    \/ \E self \in DOMAIN tasks : StartPlayingRetry(self)
    \/ \E g \in ActiveGuilds : PlayerFinish(g)
    \/ Tick

SpecClock == Init /\ [][ClockNext]_vars

\* ─── the system with commands on every guild ────────────────────────────
GuildsNext ==
    \/ \E g \in Guilds, nom \in Tracks : PlayIssue(g, nom)
    \/ \E self \in DOMAIN tasks : PlayConnected(self)
    \/ \E self \in DOMAIN tasks : PlayTrigger(self)
    \/ \E g \in Guilds : PlayAllIssue(g)
    \/ \E self \in DOMAIN tasks : PlayAllConnected(self)
    \/ \E self \in DOMAIN tasks : PlayAllTrigger(self)
    \/ \E g \in Guilds : StopIssue(g)
    \/ \E g \in Guilds : SkipIssue(g)
    \/ \E self \in DOMAIN tasks : PlayNextStart(self)
    \/ \E self \in DOMAIN tasks : PlayNextAcquire(self)
    \/ \E self \in DOMAIN tasks : StartPlayingPath(self)
    \/ \E self \in DOMAIN tasks : StartPlayingRetry(self)
    \/ \E g \in Guilds : PlayerFinish(g)

SpecGuilds == Init /\ [][GuildsNext]_vars

\* ─── /nowplaying and nowplaying_updater ─────────────────────────────────
\* variant of setdefault that stores the default over the entry
setdefault_overwrite(d, g, v) == [h \in (DOMAIN d) \cup {g} |-> IF h = g THEN v ELSE d[h]]

\* dict.setdefault(g, v): the dict with v under g only when g has no entry
setdefault(d, g, v) == IF g \in DOMAIN d THEN d ELSE d @@ (g :> v)

\* lines 129-135
ensure_guild_state(g) ==
    /\ queues' = setdefault(queues, g, <<>>)
    /\ is_playing' = setdefault(is_playing, g, FALSE)
    /\ current_audio' = setdefault(current_audio, g, None)
    /\ current_start' = setdefault(current_start, g, NoTime)
    /\ current_duration' = setdefault(current_duration, g, 0)
    /\ playback_locks' = setdefault(playback_locks, g, IdleLock)

\* nowplaying_messages[g] = ...: a new key goes to the end
DictSet(keys, g) == IF \E i \in DOMAIN keys : keys[i] = g THEN keys ELSE Append(keys, g)
\* nowplaying_messages.pop(g, None)
DictPop(keys, g) == SelectSeq(keys, LAMBDA h : h # g)

\* total_duration_of_files(files), lines 90-95
RECURSIVE total_duration_of_files(_)
total_duration_of_files(files) ==
    IF files = <<>> THEN 0
    ELSE probe_duration(Head(files)) + total_duration_of_files(Tail(files))

\* lines 558-578 on a guild that plays: the message sent is registered (on a
\* guild that does not play the handler only replies)
NowPlayingIssue(g) ==
    /\ current_audio[g] # None
    /\ is_playing[g]
    /\ nowplaying_messages' = DictSet(nowplaying_messages, g)
    /\ UNCHANGED <<progVars, envVars, histVars, reporter, rendered, position>>

\* the updater goes on with the next message of its pass, or sleeps
ReporterNext(rest) ==
    IF rest = <<>> THEN ReporterAsleep ELSE [ReporterAsleep EXCEPT !.pc = "fetch", !.todo = rest]

\* lines 287-296: back from asyncio.sleep(2), the pass runs over a copy of
\* the dict and is suspended in fetch_message
ReporterWake ==
    /\ reporter.pc = "sleep"
    /\ nowplaying_messages # <<>>
    /\ reporter' = ReporterNext(nowplaying_messages)
    /\ UNCHANGED <<progVars, envVars, histVars, nowplaying_messages, rendered, position>>

\* lines 298-300: fetch_message raises NotFound
ReporterGone ==
    /\ reporter.pc = "fetch"
    /\ nowplaying_messages' = DictPop(nowplaying_messages, Head(reporter.todo))
    /\ reporter' = ReporterNext(Tail(reporter.todo))
    /\ UNCHANGED <<progVars, envVars, histVars, rendered, position>>

\* lines 302-313: the message is there.  Not playing: the message is set to
\* "Aucune musique en cours".  Playing: elapsed and remaining time of the
\* current track are computed; with queued tracks the coroutine is then
\* suspended in total_duration_of_files, else the embed is built and sent
ReporterFetched ==
    /\ reporter.pc = "fetch"
    /\ UNCHANGED <<datafile, tasks, envVars, histVars, nowplaying_messages, position>>
    /\ \E g \in Guilds :
         LET elapsed == Elapsed(g)'
             remaining_current ==
                 IF current_duration'[g] - elapsed < 0 THEN 0
                 ELSE current_duration'[g] - elapsed
         IN  /\ g = Head(reporter.todo)
             /\ ensure_guild_state(g)
             /\ IF current_audio'[g] = None \/ ~is_playing'[g]
                THEN /\ rendered' = [rendered EXCEPT ![g] = [NoRender EXCEPT !.kind = "idle"]]
                     /\ reporter' = ReporterNext(Tail(reporter.todo))
                ELSE IF queues'[g] # <<>>
                THEN /\ reporter' =
                          [reporter EXCEPT !.pc = "probe",
                                           !.elapsed = elapsed,
                                           !.remaining = remaining_current,
                                           !.queue_dur = total_duration_of_files(queues'[g])]
                     /\ UNCHANGED rendered
                ELSE /\ rendered' = [rendered EXCEPT ![g] =
                                       [kind |-> "playing", elapsed |-> elapsed,
                                        duration |-> current_duration'[g],
                                        remaining |-> remaining_current]]
                     /\ reporter' = ReporterNext(Tail(reporter.todo))

\* lines 310-316: total_duration_of_files has returned
ReporterProbed ==
    LET g == Head(reporter.todo)
    IN  /\ reporter.pc = "probe"
        /\ rendered' = [rendered EXCEPT ![g] =
                          [kind |-> "playing", elapsed |-> reporter.elapsed,
                           duration |-> current_duration[g],
                           remaining |-> reporter.remaining]]
        /\ reporter' = ReporterNext(Tail(reporter.todo))
        /\ UNCHANGED <<progVars, envVars, histVars, nowplaying_messages, position>>

\* a coroutine can run on at once: a scheduled play_next, or the first
\* waiter of a free lock
LoopBusy ==
    \E k \in DOMAIN tasks :
        \/ tasks[k].pc = "pn_start"
        \/ /\ tasks[k].pc = "pn_wait"
           /\ ~playback_locks[tasks[k].g].locked
           /\ Head(playback_locks[tasks[k].g].waiters) = k

\* the stream of the guild has been played to its end
StreamOver(g) == vc_is_playing(voice[g]) /\ position[g] >= TrackLength(voice[g].source)

\* one unit of time passes: the players that play move on by it; a stream
\* at its end and a coroutine ready to run come first
Advance ==
    /\ now < MaxTime
    /\ ~LoopBusy
    /\ \A g \in Guilds : ~StreamOver(g)
    /\ now' = now + 1
    /\ position' = [g \in Guilds |->
                       IF vc_is_playing(voice[g]) THEN position[g] + 1 ELSE position[g]]
    /\ UNCHANGED <<progVars, audio_files, voice, histVars, nowplaying_messages, reporter,
                   rendered>>

\* the player calls _after when its stream is over
StreamEnds(g) ==
    /\ StreamOver(g)
    /\ PlayerFinish(g)

\* play of one file on every guild, the display and its updater (the clock
\* stands still)
DisplayNext ==
    \/ \E g \in Guilds : PlayIssue(g, "a")
    \/ \E self \in DOMAIN tasks : PlayConnected(self)
    \/ \E self \in DOMAIN tasks : PlayTrigger(self)
    \/ \E self \in DOMAIN tasks : PlayNextStart(self)
    \/ \E self \in DOMAIN tasks : PlayNextAcquire(self)
    \/ \E self \in DOMAIN tasks : StartPlayingPath(self)
    \/ \E self \in DOMAIN tasks : StartPlayingRetry(self)
    \/ \E g \in Guilds : PlayerFinish(g)
    \/ \E g \in Guilds : NowPlayingIssue(g)
    \/ ReporterWake
    \/ ReporterGone
    \/ ReporterFetched
    \/ ReporterProbed

SpecDisplay == Init /\ [][DisplayNext]_vars

\* play, pause and resume on one guild, the display and its updater, with
\* time passing and streams that end at their length
TimedDisplayNext ==
    \/ \E g \in ActiveGuilds, nom \in Tracks : PlayIssue(g, nom)
    \/ \E self \in DOMAIN tasks : PlayConnected(self)
    \/ \E self \in DOMAIN tasks : PlayTrigger(self)
    \/ \E g \in ActiveGuilds : PauseIssue(g)
    \/ \E g \in ActiveGuilds : ResumeIssue(g)
    \/ \E self \in DOMAIN tasks : PlayNextStart(self)
    \/ \E self \in DOMAIN tasks : PlayNextAcquire(self)
    \/ \E self \in DOMAIN tasks : StartPlayingPath(self)
    \/ \E self \in DOMAIN tasks : StartPlayingRetry(self)
    \/ \E g \in ActiveGuilds : StreamEnds(g)
    \/ \E g \in ActiveGuilds : NowPlayingIssue(g)
    \/ ReporterWake
    \/ ReporterGone
    \/ ReporterFetched
    \/ ReporterProbed
    \/ Advance

SpecTimedDisplay == Init /\ [][TimedDisplayNext]_vars

\* ─── the system with a process that can die inside a file write ────────
TornNext ==
    \/ Next
    \/ \E g \in ActiveGuilds : CrashInSave(g)

SpecTorn == Init /\ [][TornNext]_vars

\* ─── the system with a snapshot write that can fail ─────────────────────
\* save_json raises OSError: from open() with the file as it was, or from
\* json.dump with the file cut short
FailedWrite(file) == {file, TornSnapshot}

\* play on a connected guild (lines 426-427): the track is appended and
\* save_queue_for_guild raises; nothing catches it, the handler ends there
PlayWriteFails(g, nom) ==
    /\ cmds < MaxCmds
    /\ ~faulted
    /\ play_accepts(nom)
    /\ vc_is_connected(voice[g])
    /\ cmds' = cmds + 1
    /\ faulted' = TRUE
    /\ queues' = [queues EXCEPT ![g] = Append(@, nom)]
    /\ appended' = [appended EXCEPT ![g] = Append(@, nom)]
    /\ \E file \in FailedWrite(datafile[g]) : datafile' = [datafile EXCEPT ![g] = file]
    /\ flags' = [flags EXCEPT ![g] = IssueFlags(g, "play") \cup {"writefail"}]
    /\ UNCHANGED <<is_playing, current_audio, current_start, current_duration,
                   playback_locks, tasks, audio_files, voice, now, started, recovered,
                   pn_entries, paused_elapsed, dispVars>>

\* a coroutine is about to enter the body of play_next with the lock free:
\* a scheduled play_next, the first waiter of a free lock, or a play or
\* playall handler back from followup.send on a guild that is not playing
EntersPlayNext(k) ==
    LET g == tasks[k].g
        lk == playback_locks[g]
    IN  \/ tasks[k].pc = "pn_start" /\ LockCanAcquire(lk)
        \/ /\ tasks[k].pc = "pn_wait"
           /\ ~lk.locked /\ lk.waiters # <<>> /\ Head(lk.waiters) = k
        \/ tasks[k].pc = "play_sent" /\ ~is_playing[g] /\ LockCanAcquire(lk)

\* play_next whose first save_queue_for_guild raises (line 172 or 176):
\* the exception leaves the `async with` block, which frees the lock, and
\* ends the coroutine
PlayNextWriteFails(self) ==
    LET g == tasks[self].g
        lk == IF tasks[self].pc = "pn_wait"
              THEN [playback_locks[g] EXCEPT !.waiters = Tail(@)]
              ELSE playback_locks[g]
    IN  /\ ~faulted
        /\ EntersPlayNext(self)
        /\ faulted' = TRUE
        /\ pn_entries' = [pn_entries EXCEPT ![g] = @ + 1]
        /\ IF queues[g] = <<>>
           THEN /\ is_playing' = [is_playing EXCEPT ![g] = FALSE]
                /\ current_audio' = [current_audio EXCEPT ![g] = None]
                /\ current_start' = [current_start EXCEPT ![g] = NoTime]
                /\ current_duration' = [current_duration EXCEPT ![g] = 0]
                /\ UNCHANGED queues
           ELSE /\ queues' = [queues EXCEPT ![g] = PopFront(@).rest]
                /\ current_audio' = [current_audio EXCEPT ![g] = PopFront(queues[g]).item]
                /\ UNCHANGED <<is_playing, current_start, current_duration>>
        /\ \E file \in FailedWrite(datafile[g]) : datafile' = [datafile EXCEPT ![g] = file]
        /\ playback_locks' = [playback_locks EXCEPT ![g] = LockRelease(lk)]
        /\ tasks' = Finish(tasks, self)
        /\ flags' = [flags EXCEPT ![g] = @ \cup {"writefail"}]
        /\ UNCHANGED <<audio_files, voice, now, cmds, appended, started, recovered,
                       paused_elapsed, dispVars>>

\* stop (lines 525-529) whose save_queue_for_guild raises
StopWriteFails(g) ==
    /\ cmds < MaxCmds
    /\ ~faulted
    /\ cmds' = cmds + 1
    /\ faulted' = TRUE
    /\ queues' = [queues EXCEPT ![g] = clear(@)]
    /\ voice' = [voice EXCEPT ![g] = vc_stop(@)]
    /\ tasks' = AfterStop(tasks, g)
    /\ is_playing' = [is_playing EXCEPT ![g] = FALSE]
    /\ \E file \in FailedWrite(datafile[g]) : datafile' = [datafile EXCEPT ![g] = file]
    /\ flags' = [flags EXCEPT ![g] = IssueFlags(g, "stop") \cup {"writefail"}]
    /\ UNCHANGED <<current_audio, current_start, current_duration, playback_locks,
                   audio_files, now, appended, started, recovered, pn_entries,
                   paused_elapsed, dispVars>>

WriteFailNext ==
    \/ Next
    \/ \E g \in ActiveGuilds, nom \in Tracks : PlayWriteFails(g, nom)
    \/ \E self \in DOMAIN tasks : PlayNextWriteFails(self)
    \/ \E g \in ActiveGuilds : StopWriteFails(g)

SpecWriteFail == Init /\ [][WriteFailNext]_vars

\* ─── properties ─────────────────────────────────────────────────────────
Range(s) == {s[i] : i \in DOMAIN s}
IsPrefix(s, t) == Len(s) <= Len(t) /\ SubSeq(t, 1, Len(s)) = s

\* the guild's coroutines that hold a popped track and are about to start it
Starting(g, t) ==
    Cardinality({k \in DOMAIN tasks :
                   tasks[k].g = g /\ tasks[k].pc = "spp_probe" /\ tasks[k].nom = t})

\* play_next has been called for the guild, or a call is scheduled or waiting
PlayNextInvoked(g) ==
    \/ pn_entries[g] > 0
    \/ \E k \in DOMAIN tasks : tasks[k].g = g /\ tasks[k].pc \in {"pn_start", "pn_wait"}

\* nothing plays and nothing is current
Idle(g) ==
    /\ ~is_playing[g]
    /\ current_audio[g] = None
    /\ current_start[g] = NoTime

\* commands came one at a time, each after the one before had run to its end,
\* and the environment injected no fault
Sequential(g) == "overlap" \notin flags[g] /\ ~faulted

\* C1: on a guild that only received play commands one after the other and
\* whose files all exist, after two tracks x, y were appended: while the first
\* stream runs x is current and the queue is [y]; after x's completion
\* callback y is current and the queue is empty; after y's completion
\* callback the guild is idle with an empty queue.  And whenever no stop, no
\* skip and no restart happened, the tracks started so far are, in order,
\* the first tracks appended.
C1_StartedInAppendOrder ==
    \A g \in ActiveGuilds :
        /\ (flags[g] \cap {"stop", "skip", "crash"} = {})
              => IsPrefix(started[g], appended[g])
        /\ ( /\ flags[g] \subseteq {"play", "finished"}
             /\ Sequential(g)
             /\ Quiescent
             /\ Len(appended[g]) = 2 )
              => \/ /\ started[g] = SubSeq(appended[g], 1, 1)
                    /\ voice[g].player # "none"
                    /\ voice[g].source = appended[g][1]
                    /\ current_audio[g] = appended[g][1]
                    /\ is_playing[g]
                    /\ queues[g] = <<appended[g][2]>>
                 \/ /\ started[g] = appended[g]
                    /\ voice[g].player # "none"
                    /\ voice[g].source = appended[g][2]
                    /\ current_audio[g] = appended[g][2]
                    /\ is_playing[g]
                    /\ queues[g] = <<>>
                 \/ /\ started[g] = appended[g]
                    /\ voice[g].player = "none"
                    /\ Idle(g)
                    /\ queues[g] = <<>>

C1_Witness ==
    \E g \in ActiveGuilds :
        /\ appended[g] = <<"a", "b">>
        /\ started[g] = <<"a", "b">>
        /\ flags[g] = {"play", "finished"}
        /\ Sequential(g)
        /\ Quiescent
        /\ voice[g].player = "none"
        /\ Idle(g)
        /\ queues[g] = <<>>
        /\ cmds = 2

\* C2: with only play commands and completion callbacks on a connected guild
\* whose files all exist (no stop, skip, join, leave, restart), every appended
\* track is accounted for exactly once: it is still in the queue, or it is
\* the popped track a play_next is about to start, or it has been started.
C2_NoTrackLost ==
    \A g \in ActiveGuilds :
        ( /\ flags[g] \subseteq {"play", "overlap", "finished"}
          /\ ~faulted
          /\ vc_is_connected(voice[g]) )
           => \A t \in Tracks :
                 Count(t, appended[g]) =
                     Count(t, queues[g]) + Starting(g, t) + Count(t, started[g])

\* C3: when stop arrives while the only coroutines in flight are play_next
\* calls scheduled by completion callbacks, then until the next command
\* neither the track that was current when stop was called nor the track
\* whose stream ended is started, and once everything has run to its end
\* the queue is empty.
C3_StopBeatsCallback ==
    /\ [](\A g \in ActiveGuilds :
            ( /\ "stoprace" \in flags[g]
              /\ "poststop" \notin flags[g]
              /\ Quiescent )
             => queues[g] = <<>>)
    /\ [][\A g \in ActiveGuilds :
            ( /\ "stoprace" \in flags[g]
              /\ "poststop" \notin flags[g]
              /\ "stoprace" \in flags'[g]
              /\ started'[g] # started[g] )
             => /\ started'[g][Len(started'[g])] # current_audio[g]
                /\ started[g] # <<>>
                      => started'[g][Len(started'[g])] # started[g][Len(started[g])]]_vars

\* C4: the step of the stop handler leaves the queue empty, no current
\* track, the guild not playing, and a snapshot with an empty queue and no
\* current track.
C4_StopClearsAll ==
    [][\A g \in ActiveGuilds :
         StopIssue(g)
            => /\ queues'[g] = <<>>
               /\ current_audio'[g] = None
               /\ ~is_playing'[g]
               /\ datafile'[g].exists
               /\ datafile'[g].queue = <<>>
               /\ datafile'[g].current_audio = None]_vars

\* C5: the play_next step that pops a missing file which was the only queue
\* entry ends with the guild idle, the queue empty, the lock free and no
\* stream started.
C5_MissingFileSkipped ==
    [][\A g \in ActiveGuilds :
         ( /\ pn_entries'[g] = pn_entries[g] + 1
           /\ Len(queues[g]) = 1
           /\ ~path_exists(Head(queues[g])) )
            => /\ queues'[g] = <<>>
               /\ ~is_playing'[g]
               /\ current_audio'[g] = None
               /\ ~playback_locks'[g].locked
               /\ playback_locks'[g].waiters = <<>>
               /\ started'[g] = started[g]]_vars

\* C6: the play_next step that finds a non-empty queue whose first file
\* exists and no connected voice client leaves the queue as it was and the
\* guild idle, writes a snapshot with that queue and no current track,
\* frees the lock, starts no stream and ends the call: no coroutine is
\* created or moved, play_next is entered once.
C6_NoVoicePutsBack ==
    [][\A g \in ActiveGuilds :
         ( /\ pn_entries'[g] # pn_entries[g]
           /\ pn_entries'[g] # 0
           /\ queues[g] # <<>>
           /\ path_exists(Head(queues[g]))
           /\ ~vc_is_connected(voice[g]) )
            => /\ queues'[g] = queues[g]
               /\ Idle(g)'
               /\ current_duration'[g] = 0
               /\ datafile'[g].exists
               /\ datafile'[g].queue = queues[g]
               /\ datafile'[g].current_audio = None
               /\ ~playback_locks'[g].locked
               /\ pn_entries'[g] = pn_entries[g] + 1
               /\ started'[g] = started[g]
               /\ voice'[g] = voice[g]
               /\ DOMAIN tasks' \subseteq DOMAIN tasks
               /\ \A k \in DOMAIN tasks' : tasks'[k] = tasks[k]]_vars

C6_Witness ==
    \E g \in ActiveGuilds :
        /\ "novoice" \in flags[g]
        /\ Len(queues[g]) = 2
        /\ Idle(g)
        /\ datafile[g].queue = queues[g]
        /\ datafile[g].current_audio = None
        /\ ~playback_locks[g].locked
        /\ ~vc_is_connected(voice[g])

\* C7: when the start of a stream has raised, the retry after the pause
\* enters play_next, which takes the next track or settles idle: it is not
\* left waiting.
C7_RaiseAdvances ==
    [][\A k \in DOMAIN tasks :
         StartPlayingRetry(k)
            => /\ pn_entries'[tasks[k].g] = pn_entries[tasks[k].g] + 1
               /\ (k \in DOMAIN tasks' => tasks'[k].pc # "pn_wait")]_vars

\* C8: on a guild that only received play, playall and join commands one
\* after the other, with no completion yet and all files present, once
\* everything has run to its end the first track appended is current and
\* playing and the queue holds the tracks appended after it, in order.
C8_FirstPlaysRestQueued ==
    \A g \in ActiveGuilds :
        ( /\ flags[g] \subseteq {"play", "join"}
          /\ Sequential(g)
          /\ Quiescent
          /\ appended[g] # <<>> )
           => /\ current_audio[g] = Head(appended[g])
              /\ is_playing[g]
              /\ current_start[g] # NoTime
              /\ current_duration[g] = TrackLength(Head(appended[g]))
              /\ voice[g].player # "none"
              /\ voice[g].source = Head(appended[g])
              /\ started[g] = <<Head(appended[g])>>
              /\ queues[g] = Tail(appended[g])

C8_Witness ==
    \E g \in ActiveGuilds :
        /\ flags[g] = {"play"}
        /\ Sequential(g)
        /\ Quiescent
        /\ cmds = 2
        /\ Len(appended[g]) = 3
        /\ current_audio[g] = Head(appended[g])
        /\ queues[g] = Tail(appended[g])

\* C9: after a restart in which the recovery loaded a non-empty queue and
\* its own connect succeeded, with no command arriving before the queue was
\* loaded and no stop issued since, the first track started is the front of
\* the loaded queue; the track saved as current is started at most as often
\* as it occurs in the loaded queue and among the tracks appended since the
\* restart.
C9_ResumesFromQueueFront ==
    \A g \in ActiveGuilds :
        ( /\ recovered[g].how = "connected"
          /\ recovered[g].q # <<>>
          /\ "preload" \notin flags[g]
          /\ "stop" \notin flags[g] )
           => /\ started[g] # <<>> => started[g][1] = Head(recovered[g].q)
              /\ recovered[g].curr # None
                    => Count(recovered[g].curr, started[g]) <=
                           Count(recovered[g].curr, recovered[g].q)
                             + Count(recovered[g].curr, appended[g])

C9_Witness ==
    \E g \in ActiveGuilds :
        /\ recovered[g].how = "connected"
        /\ recovered[g].q # <<>>
        /\ recovered[g].curr # None
        /\ recovered[g].curr \notin Range(recovered[g].q)
        /\ started[g] = <<Head(recovered[g].q)>>
        /\ flags[g] = {"crash"}
        /\ Quiescent

\* C10 as amended: after a recovery that ended without voice connection
\* (connect failed, or no voice target saved), as long as no join, play,
\* playall or skip command was issued, the guild is idle, play_next has not
\* been invoked, and the queue is the loaded one unless a stop emptied it.
C10_LoadedIdleUntilCommand ==
    \A g \in ActiveGuilds :
        ( /\ recovered[g].how \in {"novoice", "failed"}
          /\ flags[g] \cap {"join", "play", "skip"} = {} )
           => /\ Idle(g)
              /\ voice[g].player = "none"
              /\ ~PlayNextInvoked(g)
              /\ started[g] = <<>>
              /\ queues[g] = IF "stop" \in flags[g] THEN <<>> ELSE recovered[g].q

C10_Witness ==
    \E g \in ActiveGuilds :
        /\ recovered[g].how = "failed"
        /\ recovered[g].q # <<>>
        /\ queues[g] = recovered[g].q
        /\ Quiescent
        /\ ~PlayNextInvoked(g)
        /\ Idle(g)

\* C10 as written: the same, with only join and play (play and playall
\* commands leave the mark "play") ending the wait.
C10_UntilJoinOrPlay ==
    \A g \in ActiveGuilds :
        ( /\ recovered[g].how \in {"novoice", "failed"}
          /\ flags[g] \cap {"join", "play"} = {} )
           => /\ Idle(g)
              /\ voice[g].player = "none"
              /\ ~PlayNextInvoked(g)
              /\ started[g] = <<>>
              /\ queues[g] = IF "stop" \in flags[g] THEN <<>> ELSE recovered[g].q

\* a play_next of the guild is inside the section guarded by the lock: it
\* probes, or sleeps after a failed start, or awaits the play_next it called
\* from inside the section
InSection(k) ==
    \/ tasks[k].pc \in {"spp_probe", "spp_sleep"}
    \/ /\ tasks[k].pc = "pn_wait"
       /\ \E i \in DOMAIN tasks[k].stack : tasks[k].stack[i] \in {"missing", "except"}

SectionTasks(g) == {k \in DOMAIN tasks : tasks[k].g = g /\ InSection(k)}

\* the step is one of a play_next that holds the guild's lock: it enters the
\* body, or it goes on after the probe
LockHolderStep(g) ==
    \/ pn_entries'[g] = pn_entries[g] + 1
    \/ \E k \in DOMAIN tasks :
          /\ tasks[k].g = g
          /\ tasks[k].pc = "spp_probe"
          /\ (k \notin DOMAIN tasks' \/ tasks'[k].pc # "spp_probe")

\* the process was restarted in this step
RestartStep == faulted' /\ ~faulted /\ \A g \in Guilds : flags'[g] = {"crash"}

\* C15: whenever _start_playing_path calls voice_client.play (the step after
\* the probe in which ffmpeg itself does not fail), the guild's voice client
\* has no stream, neither playing nor paused.
C15_OneStreamRequest ==
    [][\A k \in DOMAIN tasks :
         (StartPlayingPath(k) /\ faulted' = faulted)
            => voice[tasks[k].g].player = "none"]_vars

\* C16: per guild at most one play_next is inside the locked section, the
\* lock is locked exactly while one is, and every other play_next that has
\* been called and has not entered is in the lock's wait list.
C16_OneInSection ==
    \A g \in ActiveGuilds :
        /\ Cardinality(SectionTasks(g)) <= 1
        /\ playback_locks[g].locked <=> SectionTasks(g) # {}
        /\ \A k \in DOMAIN tasks :
              (tasks[k].g = g /\ tasks[k].pc = "pn_wait")
                 => \E i \in DOMAIN playback_locks[g].waiters :
                       playback_locks[g].waiters[i] = k

C16_Witness ==
    \E g \in ActiveGuilds : \E k, w \in DOMAIN tasks :
        /\ k # w
        /\ tasks[k].g = g /\ tasks[k].pc = "spp_probe"
        /\ tasks[w].g = g /\ tasks[w].pc = "pn_wait" /\ ~InSection(w)
        /\ playback_locks[g].locked
        /\ playback_locks[g].waiters = <<w>>

\* C17: every step that changes a guild's queue, current track or playing
\* flag is a step of a play_next holding the guild's lock (the restart of
\* the process aside).
C17_MutationsUnderLock ==
    [][\A g \in ActiveGuilds :
         ( /\ \/ queues'[g] # queues[g]
              \/ current_audio'[g] # current_audio[g]
              \/ is_playing'[g] # is_playing[g]
           /\ ~RestartStep )
            => LockHolderStep(g)]_vars

\* C18 as amended: while a play_next waits on the duration probe the
\* guild's lock is locked, and no play_next of the guild enters the body
\* in a step taken during the probe.
C18_LockHeldDuringProbe ==
    /\ [](\A k \in DOMAIN tasks :
            tasks[k].pc = "spp_probe" => playback_locks[tasks[k].g].locked)
    /\ [][\A k \in DOMAIN tasks :
            (tasks[k].pc = "spp_probe" /\ ~RestartStep)
               => pn_entries'[tasks[k].g] = pn_entries[tasks[k].g]]_vars

C18_Witness ==
    \E g \in ActiveGuilds : \E k, w \in DOMAIN tasks :
        /\ tasks[k].g = g /\ tasks[k].pc = "spp_probe"
        /\ tasks[w].g = g /\ tasks[w].pc = "pn_wait"
        /\ tasks[w].kind = "after"
        /\ playback_locks[g].locked
        /\ queues[g] # <<>>

\* C18 as written: while a play_next waits on the duration probe the
\* guild's lock is free.
C18_LockFreeDuringProbe ==
    \A k \in DOMAIN tasks :
        tasks[k].pc = "spp_probe" => ~playback_locks[tasks[k].g].locked

C20_CurrentNotQueued ==
    /\ [](\A g \in ActiveGuilds : \A t \in Tracks :
            Count(t, queues[g]) + (IF current_audio[g] = t THEN 1 ELSE 0)
               <= Count(t, appended[g]) + Count(t, recovered[g].q))
    /\ [][\A g \in ActiveGuilds :
            (current_audio'[g] # current_audio[g] /\ current_audio'[g] # None)
               => /\ queues[g] # <<>>
                  /\ current_audio'[g] = Head(queues[g])
                  /\ queues'[g] = Tail(queues[g])]_vars

C20_Witness ==
    \E g \in ActiveGuilds :
        /\ current_audio[g] = "a"
        /\ queues[g] = <<"a">>
        /\ appended[g] = <<"a", "a">>
        /\ started[g] = <<"a">>
        /\ is_playing[g]

\* C12: a skip issued while the stream is paused tells the voice client to
\* stop it (the stream is gone after the step) and the stream's completion
\* callback, a scheduled play_next, is on the loop.
C12_SkipPausedStops ==
    [][\A g \in ActiveGuilds :
         (SkipIssue(g) /\ vc_is_paused(voice[g]))
            => /\ voice'[g].player = "none"
               /\ \E k \in DOMAIN tasks' :
                     /\ k \notin DOMAIN tasks
                     /\ tasks'[k] = AfterTask(g)]_vars

\* C13 as amended: a play command for a file that does not exist at call
\* time is refused: nothing is appended and queue, snapshot, voice client
\* and coroutines stay as they were; a play command appends at once only a
\* file that exists; and a play_next that finds the head of the queue
\* missing does not go on to start it.
C13_MissingFileRefused ==
    /\ [][\A g \in ActiveGuilds : \A nom \in Tracks :
            (PlayIssue(g, nom) /\ ~path_exists(nom))
               => /\ UNCHANGED <<queues, appended, datafile, voice, tasks>>
                  /\ UNCHANGED <<memVars, playback_locks, pn_entries>>]_vars
    /\ [][\A g \in ActiveGuilds : \A nom \in Tracks :
            (PlayIssue(g, nom) /\ appended'[g] # appended[g])
               => path_exists(nom)]_vars
    /\ [][\A g \in ActiveGuilds :
            ( /\ pn_entries'[g] = pn_entries[g] + 1
              /\ queues[g] # <<>>
              /\ ~path_exists(Head(queues[g])) )
               => /\ started'[g] = started[g]
                  /\ \A k \in DOMAIN tasks' :
                        tasks'[k].g = g => tasks'[k].pc # "spp_probe"]_vars

C13_Witness ==
    \E g \in ActiveGuilds : \E nom \in Tracks :
        /\ "rejected" \in flags[g]
        /\ ~path_exists(nom)
        /\ cmds = 2
        /\ Len(appended[g]) = 1

\* C13 as written: a play command for a file that does not exist at call
\* time, on a connected guild, appends the track.
C13_MissingFileQueued ==
    [][\A g \in ActiveGuilds : \A nom \in Tracks :
         (PlayIssue(g, nom) /\ ~path_exists(nom) /\ vc_is_connected(voice[g]))
            => queues'[g] = Append(queues[g], nom)]_vars

\* C11: right after a resume the elapsed time computed from the guild's
\* start timestamp equals the elapsed time at the moment of the pause.
C11_ElapsedContinuous ==
    [][\A g \in ActiveGuilds :
         ResumeIssue(g) => Elapsed(g)' = paused_elapsed[g]]_vars

\* the process was restarted and the guild's queue file has not been loaded
\* yet: the guild has no entry of its own in the registry
AwaitingLoad(g) == "crash" \in flags[g] /\ recovered[g].how = "no"

\* the lines of the snapshot a load reads back
PersistedQueue(g) == LoadQueue(datafile[g]).q
PersistedCurrent(g) == LoadQueue(datafile[g]).curr

\* C21: at every point where a coroutine is suspended or has returned, the
\* persisted queue of a guild (once the running process has loaded it) is the
\* in-memory queue; a track the snapshot newly names as current is the head
\* play_next pops in that very step or the in-memory current track; and the
\* in-memory current track is only ever set by a play_next popping the head.
C21_SnapshotFollowsMemory ==
    /\ [](\A g \in Guilds : ~AwaitingLoad(g) => PersistedQueue(g) = queues[g])
    /\ [][\A g \in Guilds :
            (PersistedCurrent(g)' # PersistedCurrent(g) /\ PersistedCurrent(g)' # None)
               => \/ /\ pn_entries'[g] = pn_entries[g] + 1
                     /\ queues[g] # <<>>
                     /\ PersistedCurrent(g)' = Head(queues[g])
                  \/ PersistedCurrent(g)' = current_audio[g]]_vars
    /\ [][\A g \in Guilds :
            (current_audio'[g] # current_audio[g] /\ current_audio'[g] # None)
               => /\ pn_entries'[g] = pn_entries[g] + 1
                  /\ queues[g] # <<>>
                  /\ current_audio'[g] = Head(queues[g])]_vars

C21_Witness ==
    \E g \in ActiveGuilds :
        /\ "stop" \in flags[g]
        /\ "finished" \in flags[g]
        /\ PersistedCurrent(g) # None
        /\ PersistedCurrent(g) = current_audio[g]
        /\ PersistedQueue(g) = <<>>
        /\ queues[g] = <<>>
        /\ Len(appended[g]) >= 2

\* C22: when the process dies while a snapshot of the guild is being
\* written, the queue loaded from the file afterwards is the queue of the
\* previous snapshot or the queue of the snapshot being written.
C22_NoPartialWrite ==
    [][\A g \in ActiveGuilds :
         CrashInSave(g)
            => \/ PersistedQueue(g)' = PersistedQueue(g)
               \/ \E new \in PendingSave(g) : PersistedQueue(g)' = LoadQueue(new).q]_vars

\* C23: a snapshot write that fails does not end the operation: a play on
\* an idle guild still appends and goes on to its play_next; a play_next
\* that popped an existing track still goes on to start it on a connected
\* guild and puts it back on one that is not connected; a stop still empties
\* the queue and clears the playing flag.
C23_WriteFailureNotFatal ==
    /\ [][\A g \in ActiveGuilds : \A nom \in Tracks :
            (PlayWriteFails(g, nom) /\ ~is_playing[g])
               => /\ queues'[g] = Append(queues[g], nom)
                  /\ \E k \in DOMAIN tasks' :
                        /\ k \notin DOMAIN tasks
                        /\ tasks'[k].g = g
                        /\ tasks'[k].kind = "play"]_vars
    /\ [][\A k \in DOMAIN tasks :
            ( /\ PlayNextWriteFails(k)
              /\ queues[tasks[k].g] # <<>>
              /\ path_exists(Head(queues[tasks[k].g])) )
               => IF vc_is_connected(voice[tasks[k].g])
                  THEN /\ k \in DOMAIN tasks'
                       /\ tasks'[k].pc = "spp_probe"
                       /\ tasks'[k].nom = Head(queues[tasks[k].g])
                  ELSE /\ queues'[tasks[k].g] = queues[tasks[k].g]
                       /\ Idle(tasks[k].g)']_vars
    /\ [][\A g \in ActiveGuilds :
            StopWriteFails(g) => queues'[g] = <<>> /\ ~is_playing'[g]]_vars

\* C24: from a stop on, as long as no further command has been issued for
\* the guild, no stream is started; in particular not by a play_next that
\* had popped its track and was waiting on the probe when stop ran.
C24_NoStartAfterStop ==
    [][\A g \in ActiveGuilds :
         ( /\ "stop" \in flags[g]
           /\ "stop" \in flags'[g]
           /\ "poststop" \notin flags'[g] )
            => started'[g] = started[g]]_vars

\* a step of the nowplaying_updater coroutine
ReporterStep == ReporterWake \/ ReporterGone \/ ReporterFetched \/ ReporterProbed

\* C25: no step of the nowplaying_updater changes the queue, current
\* track, playing flag, start time, duration or lock of any guild, nor the
\* voice client, the queue files or the other coroutines; and when the
\* message of a guild is gone, the step removes that guild's display target
\* and keeps every other target, in order.
C25_ReporterOnlyReads ==
    /\ [][ReporterStep => UNCHANGED <<memVars, playback_locks, datafile, tasks, voice>>]_vars
    /\ [][ReporterGone =>
            /\ \A i \in DOMAIN nowplaying_messages' :
                  nowplaying_messages'[i] # Head(reporter.todo)
            /\ nowplaying_messages' =
                  SelectSeq(nowplaying_messages, LAMBDA h : h # Head(reporter.todo))]_vars

C25_Witness ==
    /\ nowplaying_messages = <<2>>
    /\ rendered[1].kind = "playing"
    /\ rendered[2].kind = "playing"
    /\ is_playing[1]
    /\ current_audio[1] # None
    /\ voice[1].player = "playing"
    /\ reporter.pc = "sleep"

\* C26: whatever the nowplaying_updater shows for a playing guild, the
\* elapsed time lies between 0 and the track's duration and the remaining
\* time of the current track is not negative.
C26_ElapsedWithinDuration ==
    \A g \in ActiveGuilds :
        rendered[g].kind = "playing"
           => /\ 0 <= rendered[g].elapsed
              /\ rendered[g].elapsed <= rendered[g].duration
              /\ rendered[g].remaining >= 0

\* what the program holds for one guild
GuildState(g) ==
    <<queues[g], current_audio[g], is_playing[g], current_start[g], current_duration[g],
      playback_locks[g], datafile[g], voice[g]>>

\* the step is one of a play, playall, stop or skip handler, of a play_next
\* or of a player's completion for guild g
StepOf(g) ==
    \/ \E nom \in Tracks : PlayIssue(g, nom)
    \/ PlayAllIssue(g)
    \/ StopIssue(g)
    \/ SkipIssue(g)
    \/ PlayerFinish(g)
    \/ \E self \in DOMAIN tasks :
          /\ tasks[self].g = g
          /\ \/ PlayConnected(self) \/ PlayTrigger(self)
             \/ PlayAllConnected(self) \/ PlayAllTrigger(self)
             \/ PlayNextStart(self) \/ PlayNextAcquire(self)
             \/ StartPlayingPath(self) \/ StartPlayingRetry(self)

\* a play_next of the guild waits for the lock that its own caller holds
Deadlocked(g) ==
    \E k \in DOMAIN tasks : tasks[k].g = g /\ tasks[k].pc = "pn_wait" /\ InSection(k)

\* C27: a step of a handler, play_next or completion of one guild leaves
\* every other guild's queue, current track, playing flag, times, lock,
\* queue file and voice client as they were and moves no coroutine of
\* another guild; a guild's lock is locked only while one of its own
\* play_next calls is in the section and only its own coroutines wait for
\* it; and a guild that got one play command and nothing else plays that
\* track once its coroutines have run, whatever the other guild's
\* coroutines do (one of them waiting forever on its lock included).
C27_GuildsIndependent ==
    /\ [][\A A \in Guilds : \A B \in Guilds \ {A} :
            StepOf(A)
               => /\ GuildState(B)' = GuildState(B)
                  /\ \A k \in DOMAIN tasks :
                        tasks[k].g = B => k \in DOMAIN tasks' /\ tasks'[k] = tasks[k]]_vars
    /\ [](\A g \in Guilds :
            /\ playback_locks[g].locked <=> SectionTasks(g) # {}
            /\ \A i \in DOMAIN playback_locks[g].waiters :
                  /\ playback_locks[g].waiters[i] \in DOMAIN tasks
                  /\ tasks[playback_locks[g].waiters[i]].g = g)
    /\ [](\A B \in Guilds :
            ( /\ Len(appended[B]) = 1
              /\ flags[B] \subseteq {"play", "overlap"}
              /\ \A k \in DOMAIN tasks : tasks[k].g # B )
               => /\ started[B] = appended[B]
                  /\ current_audio[B] = appended[B][1]
                  /\ is_playing[B]
                  /\ voice[B].player = "playing"
                  /\ ~playback_locks[B].locked)

C27_Witness ==
    \E A \in Guilds : \E B \in Guilds \ {A} :
        /\ Deadlocked(A)
        /\ playback_locks[A].locked
        /\ \A k \in DOMAIN tasks : tasks[k].g = A
        /\ "overlap" \in flags[B]
        /\ started[B] = appended[B]
        /\ Len(appended[B]) = 1
        /\ is_playing[B]
        /\ ~playback_locks[B].locked
====
